---- MODULE Spec2Model ----
(***************************************************************************)
(* MoneyPrinterTurbo: the pipeline orchestrator (app/services/task.py)     *)
(* and the batch driver (video_generator_auto_task.py) as state machines.  *)
(*                                                                         *)
(* Python values are modelled as follows.                                  *)
(*   str    a sequence of one-character strings; the full-width comma      *)
(*          U+FF0C is the element "U+FF0C", and in script texts the        *)
(*          six-character marker "Error:" is the single element "Error:".  *)
(*   float  an exact multiple of 2^-52 held in three limbs <<i, f1, f2>>   *)
(*          = i + f1 * 2^-26 + f2 * 2^-52, rounded after every operation   *)
(*          to the 53-bit significand of an IEEE-754 double.               *)
(*   a value of unknown Python type: a record [t |-> type, v |-> value].   *)
(***************************************************************************)
EXTENDS Integers, Sequences, FiniteSets, TLC

(***************************************************************************)
(* Bounds of the model.                                                    *)
(***************************************************************************)
\* longest video_terms string explored by SpecTerms
MaxLen == 4
\* largest video_count explored by Spec (all stages varied)
MaxCount == 2
\* largest video_count explored by SpecRender (render stage varied)
MaxRenderCount == 6
\* most lines of tasks.txt explored by SpecBatch
MaxLines == 2
\* most lines of completed.txt explored by SpecBatch
MaxCompleted == 2

(***************************************************************************)
(* Strings.                                                                *)
(***************************************************************************)
Space == " "
Comma == ","
FullWidthComma == "U+FF0C"

\* str.strip(): drop leading and trailing whitespace
RECURSIVE LStrip(_)
LStrip(s) == IF s # <<>> /\ Head(s) = Space THEN LStrip(Tail(s)) ELSE s

RECURSIVE RStrip(_)
RStrip(s) ==
    IF s # <<>> /\ s[Len(s)] = Space THEN RStrip(SubSeq(s, 1, Len(s) - 1)) ELSE s

Strip(s) == RStrip(LStrip(s))

\* re.split(r"[,，]", s): the pieces between the delimiters, empty ones kept
IsDelimiter(c) == c = Comma \/ c = FullWidthComma

RECURSIVE ReSplit(_)
ReSplit(s) ==
    IF \A i \in 1..Len(s) : ~IsDelimiter(s[i])
    THEN <<s>>
    ELSE LET i == CHOOSE k \in 1..Len(s) :
                      /\ IsDelimiter(s[k])
                      /\ \A j \in 1..(k - 1) : ~IsDelimiter(s[j])
         IN  <<SubSeq(s, 1, i - 1)>> \o ReSplit(SubSeq(s, i + 1, Len(s)))

\* [term.strip() for term in terms]
StripAll(terms) == [i \in 1..Len(terms) |-> Strip(terms[i])]

\* all sequences over S of length at most n
RECURSIVE SeqsUpTo(_, _)
SeqsUpTo(S, n) ==
    IF n = 0 THEN {<<>>}
    ELSE LET shorter == SeqsUpTo(S, n - 1)
         IN  shorter \cup {Append(s, c) : s \in shorter, c \in S}

(***************************************************************************)
(* Python values of a type known only at run time.                         *)
(***************************************************************************)
PyNone == [t |-> "none"]
PyStr(s) == [t |-> "str", v |-> s]
PyList(l) == [t |-> "list", v |-> l]
PyInt(n) == [t |-> "int", v |-> n]
\* a non-empty str that names a file of the task directory
PyPath(name) == [t |-> "path", v |-> name]

\* Python truthiness: None, "", [] and 0 are false
Truthy(x) ==
    CASE x.t = "none" -> FALSE
      [] x.t = "str"  -> x.v # <<>>
      [] x.t = "list" -> x.v # <<>>
      [] x.t = "int"  -> x.v # 0
      [] x.t = "path" -> TRUE

(***************************************************************************)
(* IEEE-754 double arithmetic on the values the progress counter takes.    *)
(* A float is <<i, f1, f2>> = i + f1 / Limb + f2 / Limb^2 with             *)
(* 0 <= f1, f2 < Limb: an exact multiple of 2^-52.  Every double in        *)
(* [1, 2^31) is of this form.  A double in [2^e, 2^(e+1)) is a multiple of *)
(* 2^(e-52), that is of 2^e units.                                         *)
(***************************************************************************)
Limb == 2^26

Float(n) == <<n, 0, 0>>

FloatLe(a, b) ==
    \/ a[1] < b[1]
    \/ a[1] = b[1] /\ a[2] < b[2]
    \/ a[1] = b[1] /\ a[2] = b[2] /\ a[3] <= b[3]

FloatLt(a, b) == FloatLe(a, b) /\ a # b

IsInteger(a) == a[2] = 0 /\ a[3] = 0

\* floor(log2(n)) for n >= 1
RECURSIVE Log2(_)
Log2(n) == IF n <= 1 THEN 0 ELSE 1 + Log2(n \div 2)

\* carry the limbs of <<i, f1, f2>> back into range
Normalize(a) ==
    LET f2 == a[3] % Limb
        c2 == a[3] \div Limb
        f1 == (a[2] + c2) % Limb
        c1 == (a[2] + c2) \div Limb
    IN  <<a[1] + c1, f1, f2>>

\* round-to-nearest, ties-to-even, of the exact value a + (num / den) units,
\* 0 <= num < den, to a double; a[1] >= 1
RoundNearestEven(a, num, den) ==
    LET ulp  == 2^Log2(a[1])
        q    == a[3] \div ulp
        r    == a[3] % ulp
        \* twice the discarded part against one ulp, both scaled by den
        twice == 2 * (r * den + num)
        one   == ulp * den
        up   == twice > one \/ (twice = one /\ q % 2 = 1)
    IN  Normalize(<<a[1], a[2], (q + (IF up THEN 1 ELSE 0)) * ulp>>)

\* a + b of two doubles
FloatAdd(a, b) ==
    RoundNearestEven(Normalize(<<a[1] + b[1], a[2] + b[2], a[3] + b[3]>>), 0, 1)

\* m / n of two ints (Python true division, correctly rounded), 1 <= n <= m
IntTrueDiv(m, n) ==
    LET i  == m \div n
        r0 == m % n
        f1 == (r0 * Limb) \div n
        r1 == (r0 * Limb) % n
        f2 == (r1 * Limb) \div n
        r2 == (r1 * Limb) % n
    IN  RoundNearestEven(<<i, f1, f2>>, r2, n)

\* a / 2 of a double a >= 2: exact
FloatHalf(a) ==
    <<a[1] \div 2,
      (a[2] + (a[1] % 2) * Limb) \div 2,
      (a[3] + (a[2] % 2) * Limb) \div 2>>

(***************************************************************************)
(* State.                                                                  *)
(***************************************************************************)
VARIABLES
    \* ---- the orchestrator, start(task_id, params, stop_at) ----
    params,      \* the VideoParams record passed to start
    stop_at,     \* the stop_at argument
    pc,          \* the position reached in start
    task,        \* the Task State Store's record of task_id (<<>>: none yet)
    calls,       \* the keyword arguments of every update_task call, in order
    invoked,     \* the stage functions start has called, in order, each
                 \* with the number of update_task calls made by its return
    collab,      \* the collaborator calls made, in order
    frame,       \* the local variables of start
    render,      \* the local variables of generate_final_videos
    script_json, \* the script.json artifact (<<>>: not written)
    ret,         \* what start returned
    \* ---- the terms stage as a function of a supplied string ----
    terms_in,    \* a video_terms string
    terms_out,   \* what generate_terms returned for it
    \* ---- the batch driver, main() ----
    tasks_file,      \* the lines of tasks.txt
    completed_file,  \* the lines of completed.txt
    all_tasks,       \* main's all_tasks
    completed,       \* main's completed set
    idx,             \* the 1-based index of the subject at hand
    bpc,             \* the position reached in main
    bresult,         \* the value tm.start returned for the subject at hand
    vidx,            \* the index into result["videos"] of the cover loop
    built,           \* the subjects build_video_params was called for, in order
    started,         \* the subjects tm.start was called for, in order
    saved            \* the subjects save_completed was called for, in order

ovars == <<params, stop_at, pc, task, calls, invoked, collab, frame, render,
           script_json, ret>>
tvars == <<terms_in, terms_out>>
bvars == <<tasks_file, completed_file, all_tasks, completed, idx, bpc, bresult,
           vidx, built, started, saved>>
vars == <<ovars, tvars, bvars>>

(***************************************************************************)
(* The Task State Store: update_task(task_id, **kwargs) merges the given   *)
(* keys into the task's record.                                            *)
(***************************************************************************)
Merge(rec, kw) ==
    [k \in DOMAIN rec \cup DOMAIN kw |-> IF k \in DOMAIN kw THEN kw[k] ELSE rec[k]]

UpdateTask(rec, kw) == Merge(rec, kw)

RECURSIVE UpdateAll(_, _)
UpdateAll(rec, kws) ==
    IF kws = <<>> THEN rec ELSE UpdateAll(UpdateTask(rec, Head(kws)), Tail(kws))

\* the update_task calls `kws`, made in this order
Update(kws) ==
    /\ task' = UpdateAll(task, kws)
    /\ calls' = calls \o kws

StateKw(state) == [state |-> state]
ProgressKw(state, progress) == [state |-> state, progress |-> Float(progress)]

TASK_STATE_FAILED == "FAILED"
TASK_STATE_COMPLETE == "COMPLETE"
TASK_STATE_PROCESSING == "PROCESSING"

\* the keys of a record of the store other than state and progress
ResultFields(rec) == DOMAIN rec \ {"state", "progress"}

(***************************************************************************)
(* The stage functions.  Each is the function of its inputs and of what    *)
(* its collaborators return; its value is                                  *)
(*   ret     what the stage function returns,                              *)
(*   kws     the update_task calls it makes,                               *)
(*   collab  the collaborator calls it makes,                              *)
(*   raised  whether it raises instead of returning.                       *)
(***************************************************************************)
ErrorMarker == "Error:"

\* "Error:" in video_script
ContainsError(text) == \E i \in 1..Len(text) : text[i] = ErrorMarker

\* (params.video_script or "").strip()
SuppliedScript(p) ==
    IF Truthy(p.video_script) THEN Strip(p.video_script.v) ELSE <<>>

generate_script(p, llm_script) ==
    LET supplied == SuppliedScript(p)
        asked == supplied = <<>>
        video_script == IF asked THEN llm_script ELSE PyStr(supplied)
    IN  [ret    |-> IF Truthy(video_script) THEN video_script ELSE PyNone,
         kws    |-> IF Truthy(video_script)
                    THEN <<>> ELSE <<StateKw(TASK_STATE_FAILED)>>,
         collab |-> IF asked THEN <<[op |-> "llm.generate_script"]>> ELSE <<>>,
         raised |-> FALSE]

\* the number of terms asked of llm.generate_terms
TermsAmount == 5

\* the branch of generate_terms for supplied terms
SuppliedTerms(video_terms) ==
    CASE video_terms.t = "str"  -> PyList(StripAll(ReSplit(video_terms.v)))
      [] video_terms.t = "list" -> PyList(StripAll(video_terms.v))
      [] OTHER                  -> PyNone

generate_terms(p, llm_terms) ==
    LET asked == ~Truthy(p.video_terms)
        raised == ~asked /\ p.video_terms.t \notin {"str", "list"}
        video_terms == IF asked THEN llm_terms ELSE SuppliedTerms(p.video_terms)
        failed == ~raised /\ ~Truthy(video_terms)
    IN  [ret    |-> IF raised \/ failed THEN PyNone ELSE video_terms,
         kws    |-> IF failed THEN <<StateKw(TASK_STATE_FAILED)>> ELSE <<>>,
         collab |-> IF asked
                    THEN <<[op |-> "llm.generate_terms", amount |-> TermsAmount]>>
                    ELSE <<>>,
         raised |-> raised]

\* math.ceil of a duration given in half seconds
Ceil(half_seconds) == (half_seconds + 1) \div 2

\* sub_maker: what voice.tts returned; half_seconds: voice.get_audio_duration
generate_audio(sub_maker, half_seconds) ==
    LET tts == [op |-> "voice.tts"]
    IN  IF sub_maker = PyNone
        THEN [ret    |-> [audio_file |-> PyNone, audio_duration |-> PyNone,
                          sub_maker |-> PyNone],
              kws    |-> <<StateKw(TASK_STATE_FAILED)>>,
              collab |-> <<tts>>,
              raised |-> FALSE]
        ELSE [ret    |-> [audio_file |-> PyPath("audio.mp3"),
                          audio_duration |-> PyInt(Ceil(half_seconds)),
                          sub_maker |-> sub_maker],
              kws    |-> <<>>,
              collab |-> <<tts, [op |-> "voice.get_audio_duration"]>>,
              raised |-> FALSE]

\* a subtitle stage that treats zero parsed lines as the other stages treat an
\* empty result
generate_subtitle_strict(p, subtitle_provider, exists, subtitle_lines) ==
    IF ~p.subtitle_enabled
    THEN [ret |-> PyStr(<<>>), kws |-> <<>>, collab |-> <<>>, raised |-> FALSE]
    ELSE [ret    |-> IF subtitle_lines = 0
                     THEN PyStr(<<>>) ELSE PyPath("subtitle.srt"),
          kws    |-> IF subtitle_lines = 0
                     THEN <<StateKw(TASK_STATE_FAILED)>> ELSE <<>>,
          collab |-> <<[op |-> "subtitle.file_to_subtitles"]>>,
          raised |-> FALSE]

\* generate_subtitle running the recognition path after every attempt of the
\* edge provider, whether or not the file is there
generate_subtitle_always_fallback(p, subtitle_provider, exists, subtitle_lines) ==
    IF ~p.subtitle_enabled
    THEN [ret |-> PyStr(<<>>), kws |-> <<>>, collab |-> <<>>, raised |-> FALSE]
    ELSE LET edge == subtitle_provider = "edge"
         IN  [ret    |-> IF subtitle_lines = 0
                         THEN PyStr(<<>>) ELSE PyPath("subtitle.srt"),
              kws    |-> <<>>,
              collab |-> <<[op |-> "config.app.get", value |-> subtitle_provider]>>
                         \o (IF edge
                             THEN <<[op |-> "voice.create_subtitle"],
                                    [op |-> "os.path.exists", value |-> exists]>>
                             ELSE <<>>)
                         \o (IF subtitle_provider = "whisper" \/ edge
                             THEN <<[op |-> "subtitle.create"],
                                    [op |-> "subtitle.correct"]>>
                             ELSE <<>>)
                         \o <<[op |-> "subtitle.file_to_subtitles"]>>,
              raised |-> FALSE]

\* subtitle_provider: config.app.get("subtitle_provider", "edge").strip().lower();
\* exists: os.path.exists(subtitle_path) after voice.create_subtitle;
\* subtitle_lines: how many lines subtitle.file_to_subtitles parsed
generate_subtitle(p, subtitle_provider, exists, subtitle_lines) ==
    IF ~p.subtitle_enabled
    THEN [ret |-> PyStr(<<>>), kws |-> <<>>, collab |-> <<>>, raised |-> FALSE]
    ELSE LET edge == subtitle_provider = "edge"
             subtitle_fallback == edge /\ ~exists
             whisper == subtitle_provider = "whisper" \/ subtitle_fallback
         IN  [ret    |-> IF subtitle_lines = 0
                         THEN PyStr(<<>>) ELSE PyPath("subtitle.srt"),
              kws    |-> <<>>,
              collab |-> <<[op |-> "config.app.get", value |-> subtitle_provider]>>
                         \o (IF edge
                             THEN <<[op |-> "voice.create_subtitle"],
                                    [op |-> "os.path.exists", value |-> exists]>>
                             ELSE <<>>)
                         \o (IF whisper
                             THEN <<[op |-> "subtitle.create"],
                                    [op |-> "subtitle.correct"]>>
                             ELSE <<>>)
                         \o <<[op |-> "subtitle.file_to_subtitles"]>>,
              raised |-> FALSE]

\* found: the clips video.preprocess_video / material.download_videos returned
get_video_materials(p, video_terms, audio_duration, found) ==
    LET call ==
            IF p.video_source = "local"
            THEN [op |-> "video.preprocess_video", materials |-> p.video_materials]
            ELSE [op |-> "material.download_videos",
                  search_terms |-> video_terms,
                  source |-> p.video_source,
                  video_contact_mode |-> p.video_concat_mode,
                  audio_duration |-> audio_duration.v * p.video_count]
    IN  [ret    |-> IF found = <<>> THEN PyNone ELSE PyList(found),
         kws    |-> IF found = <<>>
                    THEN <<StateKw(TASK_STATE_FAILED)>> ELSE <<>>,
         collab |-> <<call>>,
         raised |-> FALSE]

(***************************************************************************)
(* generate_final_videos.                                                  *)
(***************************************************************************)
Sequential == [t |-> "enum", v |-> "sequential"]
Random == [t |-> "enum", v |-> "random"]

\* VideoConcatMode(params.video_concat_mode) when it is a str
NormalizeConcatMode(mode) ==
    IF mode.t = "str" THEN [t |-> "enum", v |-> mode.v] ELSE mode

\* the caller's mode whatever the number of variants
RenderConcatModeAsRequested(p) == p.video_concat_mode

\* the concatenation mode of the render stage
RenderConcatMode(p) ==
    IF p.video_count = 1 THEN p.video_concat_mode ELSE Random

\* 50 / params.video_count / 2
ProgressStep(p) == FloatHalf(IntTrueDiv(50, p.video_count))

(***************************************************************************)
(* The inputs of start and what its collaborators may return.              *)
(***************************************************************************)
ScriptInputs ==
    {PyNone, PyStr(<<" ">>), PyStr(<<" ", "s">>), PyStr(<<"s", ErrorMarker>>)}
LlmScripts == {PyStr(<<>>), PyStr(<<"s">>), PyStr(<<ErrorMarker, "s">>)}
TermsInputs ==
    {PyNone, PyStr(<<"a", Comma, Space, "b">>), PyList(<< <<Space, "a">> >>),
     PyInt(7)}
LlmTerms == {PyList(<<>>), PyList(<< <<"a">>, <<"b">> >>)}
VideoSources == {"local", "pexels"}
ConcatModes == {[t |-> "str", v |-> "sequential"], Sequential, Random}
StopAts == {"script", "terms", "audio", "subtitle", "materials", "video", "other"}
SubMakers == {PyNone, [t |-> "SubMaker"]}
AudioHalfSeconds == {3, 5}
SubtitleProviders == {"edge", "whisper", "other"}
LocalMaterials == <<"m1">>
Downloads == {<<>>, <<"clip1", "clip2">>}

\* every local variable of start, before it is bound
NoFrame ==
    [video_script |-> PyNone, video_terms |-> PyNone, audio_file |-> PyNone,
     audio_duration |-> PyNone, sub_maker |-> PyNone, subtitle_path |-> PyNone,
     downloaded_videos |-> PyNone]

NoRender ==
    [video_concat_mode |-> PyNone, progress |-> Float(50), i |-> 0,
     final_video_paths |-> <<>>, combined_video_paths |-> <<>>,
     thumbnail_paths |-> <<>>]

Running == [t |-> "running"]
Raised(e) == [t |-> "raise", v |-> e]
Dict(d) == [t |-> "dict", v |-> d]

\* the other specifications' variables while start runs
Pending == [t |-> "pending"]
IdleTerms == terms_in = <<>> /\ terms_out = Pending
NoFile == [exists |-> FALSE, lines |-> <<>>, eol |-> TRUE]
IdleBatch ==
    /\ tasks_file = NoFile /\ completed_file = NoFile /\ all_tasks = <<>>
    /\ completed = {} /\ idx = 0 /\ bpc = "idle" /\ bresult = PyNone
    /\ vidx = 0 /\ built = <<>> /\ started = <<>> /\ saved = <<>>

IdleStart ==
    /\ params = <<>> /\ stop_at = "video" /\ pc = "idle" /\ task = <<>>
    /\ calls = <<>> /\ invoked = <<>> /\ collab = <<>> /\ frame = NoFrame
    /\ render = NoRender /\ script_json = <<>> /\ ret = Running

ParamsOf(script, terms, source, mode, count, subtitles) ==
    [video_script |-> script, video_terms |-> terms, video_source |-> source,
     video_concat_mode |-> mode, video_count |-> count,
     subtitle_enabled |-> subtitles, video_materials |-> LocalMaterials]

InitStart(counts) ==
    /\ params \in {ParamsOf(s, t, src, m, n, sub) :
                       s \in ScriptInputs, t \in TermsInputs,
                       src \in VideoSources, m \in ConcatModes,
                       n \in counts, sub \in BOOLEAN}
    /\ stop_at \in StopAts
    /\ pc = "start"
    /\ task = <<>>
    /\ calls = <<>>
    /\ invoked = <<>>
    /\ collab = <<>>
    /\ frame = NoFrame
    /\ render = NoRender
    /\ script_json = <<>>
    /\ ret = Running

Init == InitStart(0..MaxCount) /\ IdleTerms /\ IdleBatch

(***************************************************************************)
(* start, one action per stage call and per stretch of start between two   *)
(* stage calls.                                                            *)
(***************************************************************************)
\* a stage function returned `r`
Called(stage, r) ==
    /\ invoked' = Append(invoked, [stage |-> stage,
                                   at |-> Len(calls) + Len(r.kws)])
    /\ collab' = collab \o r.collab
    /\ Update(r.kws)

\* start returns `value` after the update_task calls `kws`
Return(kws, value) ==
    /\ Update(kws)
    /\ ret' = value
    /\ pc' = "done"

\* start goes on to `next` after the update_task calls `kws`
Goto(kws, next) ==
    /\ Update(kws)
    /\ ret' = ret
    /\ pc' = next

\* Fail with the progress written back to 0
FailResetsProgress == Return(<<ProgressKw(TASK_STATE_FAILED, 0)>>, PyNone)

Fail == Return(<<StateKw(TASK_STATE_FAILED)>>, PyNone)

\* Complete with the final progress one short of 100
CompleteAt99(fields) ==
    <<Merge(ProgressKw(TASK_STATE_COMPLETE, 99), fields)>>

Complete(fields) ==
    <<Merge(ProgressKw(TASK_STATE_COMPLETE, 100), fields)>>

\* lines 215-219
StartEnter ==
    /\ pc = "start"
    /\ Update(<<ProgressKw(TASK_STATE_PROCESSING, 5)>>)
    /\ params' = [params EXCEPT
                    !.video_concat_mode = NormalizeConcatMode(@)]
    /\ pc' = "script"
    /\ UNCHANGED <<stop_at, invoked, collab, frame, render, script_json, ret>>
    /\ UNCHANGED <<tvars, bvars>>

\* line 222
StartScript ==
    /\ pc = "script"
    /\ \E llm_script \in LlmScripts :
         LET r == generate_script(params, llm_script)
         IN  /\ Called("script", r)
             /\ frame' = [frame EXCEPT !.video_script = r.ret]
    /\ pc' = "after_script"
    /\ UNCHANGED <<params, stop_at, render, script_json, ret>>
    /\ UNCHANGED <<tvars, bvars>>

\* ScriptFailed without the test for the marker
ScriptFailedEmptyOnly(video_script) == ~Truthy(video_script)

\* line 223
ScriptFailed(video_script) ==
    ~Truthy(video_script) \/ ContainsError(video_script.v)

\* StartAfterScript going on to the terms stage whatever the video source
StartAfterScriptAlwaysTerms ==
    /\ pc = "after_script"
    /\ IF ScriptFailed(frame.video_script)
       THEN Fail /\ frame' = frame
       ELSE IF stop_at = "script"
       THEN /\ Return(<<ProgressKw(TASK_STATE_PROCESSING, 10)>>
                      \o Complete([script |-> frame.video_script]),
                      Dict([script |-> frame.video_script]))
            /\ frame' = frame
       ELSE /\ Goto(<<ProgressKw(TASK_STATE_PROCESSING, 10)>>, "terms")
            /\ frame' = [frame EXCEPT !.video_terms = PyStr(<<>>)]
    /\ UNCHANGED <<params, stop_at, invoked, collab, render, script_json>>
    /\ UNCHANGED <<tvars, bvars>>

\* lines 223-233
StartAfterScript ==
    /\ pc = "after_script"
    /\ IF ScriptFailed(frame.video_script)
       THEN Fail /\ frame' = frame
       ELSE IF stop_at = "script"
       THEN /\ Return(<<ProgressKw(TASK_STATE_PROCESSING, 10)>>
                      \o Complete([script |-> frame.video_script]),
                      Dict([script |-> frame.video_script]))
            /\ frame' = frame
       ELSE /\ Goto(<<ProgressKw(TASK_STATE_PROCESSING, 10)>>,
                    IF params.video_source # "local"
                    THEN "terms" ELSE "after_terms")
            /\ frame' = [frame EXCEPT !.video_terms = PyStr(<<>>)]
    /\ UNCHANGED <<params, stop_at, invoked, collab, render, script_json>>
    /\ UNCHANGED <<tvars, bvars>>

\* line 234
StartTerms ==
    /\ pc = "terms"
    /\ \E llm_terms \in LlmTerms :
         LET r == generate_terms(params, llm_terms)
         IN  /\ Called("terms", r)
             /\ IF r.raised
                THEN /\ ret' = Raised("ValueError")
                     /\ pc' = "done"
                     /\ frame' = frame
                ELSE /\ ret' = ret
                     /\ pc' = "after_terms"
                     /\ frame' = [frame EXCEPT !.video_terms = r.ret]
    /\ UNCHANGED <<params, stop_at, render, script_json>>
    /\ UNCHANGED <<tvars, bvars>>

\* save_script_data, lines 63-71
ScriptData(video_script, video_terms, p) ==
    [script |-> video_script, search_terms |-> video_terms, params |-> p]

\* lines 233-243
StartAfterTerms ==
    /\ pc = "after_terms"
    /\ IF params.video_source # "local" /\ ~Truthy(frame.video_terms)
       THEN Fail /\ script_json' = script_json
       ELSE /\ script_json' =
                   ScriptData(frame.video_script, frame.video_terms, params)
            /\ IF stop_at = "terms"
               THEN Return(Complete([terms |-> frame.video_terms]),
                           Dict([script |-> frame.video_script,
                                 terms |-> frame.video_terms]))
               ELSE Goto(<<ProgressKw(TASK_STATE_PROCESSING, 20)>>, "audio")
    /\ UNCHANGED <<params, stop_at, invoked, collab, frame, render>>
    /\ UNCHANGED <<tvars, bvars>>

\* line 246
StartAudio ==
    /\ pc = "audio"
    /\ \E sub_maker \in SubMakers, half_seconds \in AudioHalfSeconds :
         LET r == generate_audio(sub_maker, half_seconds)
         IN  /\ Called("audio", r)
             /\ frame' = [frame EXCEPT
                            !.audio_file = r.ret.audio_file,
                            !.audio_duration = r.ret.audio_duration,
                            !.sub_maker = r.ret.sub_maker]
    /\ pc' = "after_audio"
    /\ UNCHANGED <<params, stop_at, render, script_json, ret>>
    /\ UNCHANGED <<tvars, bvars>>

\* StartAfterAudio without the check of line 247
StartAfterAudioUnchecked ==
    /\ pc = "after_audio"
    /\ IF stop_at = "audio"
       THEN Return(<<ProgressKw(TASK_STATE_PROCESSING, 30)>>
                   \o Complete([audio_file |-> frame.audio_file]),
                   Dict([audio_file |-> frame.audio_file,
                         audio_duration |-> frame.audio_duration]))
       ELSE Goto(<<ProgressKw(TASK_STATE_PROCESSING, 30)>>, "subtitle")
    /\ UNCHANGED <<params, stop_at, invoked, collab, frame, render, script_json>>
    /\ UNCHANGED <<tvars, bvars>>

\* lines 247-254
StartAfterAudio ==
    /\ pc = "after_audio"
    /\ IF ~Truthy(frame.audio_file)
       THEN Fail
       ELSE IF stop_at = "audio"
       THEN Return(<<ProgressKw(TASK_STATE_PROCESSING, 30)>>
                   \o Complete([audio_file |-> frame.audio_file]),
                   Dict([audio_file |-> frame.audio_file,
                         audio_duration |-> frame.audio_duration]))
       ELSE Goto(<<ProgressKw(TASK_STATE_PROCESSING, 30)>>, "subtitle")
    /\ UNCHANGED <<params, stop_at, invoked, collab, frame, render, script_json>>
    /\ UNCHANGED <<tvars, bvars>>

\* line 257
StartSubtitle ==
    /\ pc = "subtitle"
    /\ \E subtitle_provider \in SubtitleProviders, exists \in BOOLEAN,
          subtitle_lines \in 0..1 :
         LET r == generate_subtitle(params, subtitle_provider, exists,
                                    subtitle_lines)
         IN  /\ Called("subtitle", r)
             /\ frame' = [frame EXCEPT !.subtitle_path = r.ret]
    /\ pc' = "after_subtitle"
    /\ UNCHANGED <<params, stop_at, render, script_json, ret>>
    /\ UNCHANGED <<tvars, bvars>>

\* lines 258-262
StartAfterSubtitle ==
    /\ pc = "after_subtitle"
    /\ IF stop_at = "subtitle"
       THEN Return(Complete([subtitle_path |-> frame.subtitle_path]),
                   Dict([subtitle_path |-> frame.subtitle_path]))
       ELSE Goto(<<ProgressKw(TASK_STATE_PROCESSING, 40)>>, "materials")
    /\ UNCHANGED <<params, stop_at, invoked, collab, frame, render, script_json>>
    /\ UNCHANGED <<tvars, bvars>>

\* what the material collaborator may return for these Parameters
Found(p) ==
    IF p.video_source = "local" THEN {<<>>, p.video_materials} ELSE Downloads

\* line 265
StartMaterials ==
    /\ pc = "materials"
    /\ \E found \in Found(params) :
         LET r == get_video_materials(params, frame.video_terms,
                                      frame.audio_duration, found)
         IN  /\ Called("materials", r)
             /\ frame' = [frame EXCEPT !.downloaded_videos = r.ret]
    /\ pc' = "after_materials"
    /\ UNCHANGED <<params, stop_at, render, script_json, ret>>
    /\ UNCHANGED <<tvars, bvars>>

\* StartAfterMaterials with the checkpoint of line 273 written before the
\* check of line 266
StartAfterMaterialsEarlyCheckpoint ==
    /\ pc = "after_materials"
    /\ IF ~Truthy(frame.downloaded_videos)
       THEN Return(<<ProgressKw(TASK_STATE_PROCESSING, 50),
                     StateKw(TASK_STATE_FAILED)>>, PyNone)
       ELSE IF stop_at = "materials"
       THEN Return(Complete([materials |-> frame.downloaded_videos]),
                   Dict([materials |-> frame.downloaded_videos]))
       ELSE Goto(<<ProgressKw(TASK_STATE_PROCESSING, 50)>>, "render")
    /\ UNCHANGED <<params, stop_at, invoked, collab, frame, render, script_json>>
    /\ UNCHANGED <<tvars, bvars>>

\* lines 266-273
StartAfterMaterials ==
    /\ pc = "after_materials"
    /\ IF ~Truthy(frame.downloaded_videos)
       THEN Fail
       ELSE IF stop_at = "materials"
       THEN Return(Complete([materials |-> frame.downloaded_videos]),
                   Dict([materials |-> frame.downloaded_videos]))
       ELSE Goto(<<ProgressKw(TASK_STATE_PROCESSING, 50)>>, "render")
    /\ UNCHANGED <<params, stop_at, invoked, collab, frame, render, script_json>>
    /\ UNCHANGED <<tvars, bvars>>

\* the files of variant idx
CombinedVideo(n) == <<"combined", n>>
FinalVideo(n) == <<"final", n>>
Thumbnail(n) == <<"thumbnail", n>>

\* RenderEnter storing the mode it uses back into the Parameters
RenderEnterOverwritesMode ==
    /\ pc = "render"
    /\ invoked' = Append(invoked, [stage |-> "render", at |-> Len(calls)])
    /\ render' = [video_concat_mode |-> RenderConcatMode(params),
                  progress |-> Float(50),
                  i |-> 0,
                  final_video_paths |-> <<>>,
                  combined_video_paths |-> <<>>,
                  thumbnail_paths |-> <<>>]
    /\ params' = [params EXCEPT !.video_concat_mode = RenderConcatMode(params)]
    /\ pc' = IF render'.i < params.video_count THEN "combine" ELSE "after_render"
    /\ UNCHANGED <<stop_at, task, calls, collab, frame, script_json, ret>>
    /\ UNCHANGED <<tvars, bvars>>

\* lines 160-171 and 276: generate_final_videos up to its loop
RenderEnter ==
    /\ pc = "render"
    /\ invoked' = Append(invoked, [stage |-> "render", at |-> Len(calls)])
    /\ render' = [video_concat_mode |-> RenderConcatMode(params),
                  progress |-> Float(50),
                  i |-> 0,
                  final_video_paths |-> <<>>,
                  combined_video_paths |-> <<>>,
                  thumbnail_paths |-> <<>>]
    /\ pc' = IF render'.i < params.video_count THEN "combine" ELSE "after_render"
    /\ UNCHANGED <<params, stop_at, task, calls, collab, frame, script_json, ret>>
    /\ UNCHANGED <<tvars, bvars>>

\* lines 172-187: combine the clips of variant i + 1
RenderCombine ==
    /\ pc = "combine"
    /\ LET progress == FloatAdd(render.progress, ProgressStep(params))
       IN  /\ collab' = Append(collab,
                   [op |-> "video.combine_videos",
                    combined_video_path |-> CombinedVideo(render.i + 1),
                    video_paths |-> frame.downloaded_videos,
                    audio_file |-> frame.audio_file,
                    video_concat_mode |-> render.video_concat_mode])
           /\ render' = [render EXCEPT !.progress = progress]
           /\ Update(<<[progress |-> progress]>>)
    /\ pc' = "generate"
    /\ UNCHANGED <<params, stop_at, invoked, frame, script_json, ret>>
    /\ UNCHANGED <<tvars, bvars>>

\* lines 189-209: render variant i + 1 and its thumbnail
RenderGenerate ==
    /\ pc = "generate"
    /\ \E thumb \in {<<>>, <<Thumbnail(render.i + 1)>>} :
         LET progress == FloatAdd(render.progress, ProgressStep(params))
             n == render.i + 1
         IN  /\ collab' = collab \o
                   <<[op |-> "video.generate_video",
                      video_path |-> CombinedVideo(n),
                      audio_path |-> frame.audio_file,
                      subtitle_path |-> frame.subtitle_path,
                      output_file |-> FinalVideo(n),
                      params |-> params],
                     [op |-> "overlay_title_on_first_frame",
                      video_path |-> FinalVideo(n)]>>
             /\ render' = [render EXCEPT
                    !.progress = progress,
                    !.i = n,
                    !.final_video_paths = Append(@, FinalVideo(n)),
                    !.combined_video_paths = Append(@, CombinedVideo(n)),
                    !.thumbnail_paths = @ \o thumb]
             /\ Update(<<[progress |-> progress]>>)
    /\ pc' = IF render'.i < params.video_count THEN "combine" ELSE "after_render"
    /\ UNCHANGED <<params, stop_at, invoked, frame, script_json, ret>>
    /\ UNCHANGED <<tvars, bvars>>

\* lines 286-296
Result ==
    [videos |-> render.final_video_paths,
     combined_videos |-> render.combined_video_paths,
     thumbnails |-> render.thumbnail_paths,
     script |-> frame.video_script,
     terms |-> frame.video_terms,
     audio_file |-> frame.audio_file,
     audio_duration |-> frame.audio_duration,
     subtitle_path |-> frame.subtitle_path,
     materials |-> frame.downloaded_videos]

\* lines 279-298
StartAfterRender ==
    /\ pc = "after_render"
    /\ IF render.final_video_paths = <<>>
       THEN Fail
       ELSE Return(Complete(Result), Dict(Result))
    /\ UNCHANGED <<params, stop_at, invoked, collab, frame, render, script_json>>
    /\ UNCHANGED <<tvars, bvars>>

Next ==
    \/ StartEnter
    \/ StartScript
    \/ StartAfterScript
    \/ StartTerms
    \/ StartAfterTerms
    \/ StartAudio
    \/ StartAfterAudio
    \/ StartSubtitle
    \/ StartAfterSubtitle
    \/ StartMaterials
    \/ StartAfterMaterials
    \/ RenderEnter
    \/ RenderCombine
    \/ RenderGenerate
    \/ StartAfterRender

Spec == Init /\ [][Next]_vars

\* full runs of start with every stage's input supplied, to vary the number
\* of variants of the render stage
InitRender ==
    /\ InitStart(0..MaxRenderCount)
    /\ params.video_script = PyStr(<<" ", "s">>)
    /\ params.video_terms = PyList(<< <<Space, "a">> >>)
    /\ params.video_source = "pexels"
    /\ ~params.subtitle_enabled
    /\ stop_at = "video"
    /\ IdleTerms /\ IdleBatch

SpecRender == InitRender /\ [][Next]_vars

(***************************************************************************)
(* generate_terms applied to a supplied video_terms string.                *)
(***************************************************************************)
TermChars == {"a", Space, Comma, FullWidthComma}

InitTerms ==
    /\ terms_in \in SeqsUpTo(TermChars, MaxLen)
    /\ terms_out = Pending
    /\ IdleStart /\ IdleBatch

TermsCall ==
    /\ terms_out = Pending
    /\ \E llm_terms \in LlmTerms :
         terms_out' = generate_terms([video_terms |-> PyStr(terms_in)], llm_terms)
    /\ UNCHANGED <<terms_in, ovars, bvars>>

SpecTerms == InitTerms /\ [][TermsCall]_vars

(***************************************************************************)
(* The batch driver.  A file is its lines, without their line ends, and    *)
(* whether the last line is ended by a newline.                            *)
(***************************************************************************)
File(lines, eol) == [exists |-> TRUE, lines |-> lines, eol |-> eol]

\* [line.strip() for line in f if line.strip()]
RECURSIVE StrippedLines(_)
StrippedLines(lines) ==
    IF lines = <<>> THEN <<>>
    ELSE (IF Strip(Head(lines)) # <<>> THEN <<Strip(Head(lines))>> ELSE <<>>)
         \o StrippedLines(Tail(lines))

load_tasks(f) == IF ~f.exists THEN <<>> ELSE StrippedLines(f.lines)

\* load_completed without line.strip()
load_completed_unstripped(f) ==
    IF ~f.exists THEN {}
    ELSE {f.lines[i] : i \in {j \in 1..Len(f.lines) : f.lines[j] # <<>>}}

load_completed(f) ==
    IF ~f.exists THEN {}
    ELSE {StrippedLines(f.lines)[i] : i \in 1..Len(StrippedLines(f.lines))}

\* open(COMPLETED_FILE, "a").write(subject + "\n")
save_completed(f, subject) ==
    IF ~f.exists \/ f.lines = <<>> \/ f.eol
    THEN File(f.lines \o <<subject>>, TRUE)
    ELSE File([f.lines EXCEPT ![Len(f.lines)] = @ \o subject], TRUE)

\* the fields of build_video_params' VideoParams that start reads
build_video_params(subject) ==
    [video_subject |-> subject, video_source |-> "pexels",
     video_concat_mode |-> Random, video_count |-> 0 + 1,
     subtitle_enabled |-> TRUE]

\* what tm.start(task_id, params) may do: return None, return the full
\* result with one final video per variant, or raise
StartOutcomes(p) ==
    {PyNone, Raised("Exception"),
     Dict([videos |-> [n \in 1..p.video_count |-> FinalVideo(n)]])}

\* result and "videos" in result
HasVideos(result) == result.t = "dict" /\ "videos" \in DOMAIN result.v

BatchLines == {<<"x">>, <<"y">>, <<Space, "x">>, <<Space>>}

InitBatch ==
    /\ tasks_file \in {NoFile} \cup
           {File(l, TRUE) : l \in SeqsUpTo(BatchLines, MaxLines)}
    /\ completed_file \in {NoFile} \cup
           {File(l, e) : l \in SeqsUpTo(BatchLines, MaxCompleted),
                         e \in BOOLEAN}
    /\ all_tasks = <<>>
    /\ completed = {}
    /\ idx = 0
    /\ bpc = "main"
    /\ bresult = PyNone
    /\ vidx = 0
    /\ built = <<>>
    /\ started = <<>>
    /\ saved = <<>>
    /\ IdleStart /\ IdleTerms

\* lines 162-171
MainLoad ==
    /\ bpc = "main"
    /\ all_tasks' = load_tasks(tasks_file)
    /\ completed' = load_completed(completed_file)
    /\ idx' = 1
    /\ bpc' = IF all_tasks' = <<>> THEN "done" ELSE "loop"
    /\ UNCHANGED <<tasks_file, completed_file, bresult, vidx, built, started,
                   saved>>
    /\ UNCHANGED <<ovars, tvars>>

\* lines 172-174: continue
MainSkip ==
    /\ bpc = "loop"
    /\ idx <= Len(all_tasks)
    /\ all_tasks[idx] \in completed
    /\ idx' = idx + 1
    /\ UNCHANGED <<tasks_file, completed_file, all_tasks, completed, bpc,
                   bresult, vidx, built, started, saved>>
    /\ UNCHANGED <<ovars, tvars>>

\* MainBuild with an error that ends the batch
MainBuildAbortsOnError ==
    /\ bpc = "loop"
    /\ idx <= Len(all_tasks)
    /\ all_tasks[idx] \notin completed
    /\ built' = Append(built, all_tasks[idx])
    /\ \E raises \in BOOLEAN : bpc' = IF raises THEN "done" ELSE "start"
    /\ UNCHANGED <<tasks_file, completed_file, all_tasks, completed, idx,
                   bresult, vidx, started, saved>>
    /\ UNCHANGED <<ovars, tvars>>

\* lines 176-179: build_video_params returns or raises
MainBuild ==
    /\ bpc = "loop"
    /\ idx <= Len(all_tasks)
    /\ all_tasks[idx] \notin completed
    /\ built' = Append(built, all_tasks[idx])
    /\ \E raises \in BOOLEAN : bpc' = IF raises THEN "sleep" ELSE "start"
    /\ UNCHANGED <<tasks_file, completed_file, all_tasks, completed, idx,
                   bresult, vidx, started, saved>>
    /\ UNCHANGED <<ovars, tvars>>

\* MainStart recording the subject as completed before it looks at the result
MainStartSavesFirst ==
    /\ bpc = "start"
    /\ started' = Append(started, all_tasks[idx])
    /\ \E result \in StartOutcomes(build_video_params(all_tasks[idx])) :
         /\ bresult' = result
         /\ bpc' = IF HasVideos(result) /\ result.v.videos # <<>>
                   THEN "cover" ELSE "sleep"
    /\ vidx' = 1
    /\ completed_file' = save_completed(completed_file, all_tasks[idx])
    /\ saved' = Append(saved, all_tasks[idx])
    /\ UNCHANGED <<tasks_file, all_tasks, completed, idx, built>>
    /\ UNCHANGED <<ovars, tvars>>

\* lines 180-182 and 192-196
MainStart ==
    /\ bpc = "start"
    /\ started' = Append(started, all_tasks[idx])
    /\ \E result \in StartOutcomes(build_video_params(all_tasks[idx])) :
         /\ bresult' = result
         /\ bpc' = IF HasVideos(result) /\ result.v.videos # <<>>
                   THEN "cover" ELSE "sleep"
    /\ vidx' = 1
    /\ UNCHANGED <<tasks_file, completed_file, all_tasks, completed, idx, built,
                   saved>>
    /\ UNCHANGED <<ovars, tvars>>

\* lines 183-191 and 195-196: one video of result["videos"]; add_cover_to_video
\* returns the new file, returns None, or raises
MainCover ==
    /\ bpc = "cover"
    /\ \E final_video \in {PyNone, PyPath("with_cover"), Raised("Exception")} :
         /\ completed_file' = IF final_video.t = "path"
                              THEN save_completed(completed_file, all_tasks[idx])
                              ELSE completed_file
         /\ saved' = IF final_video.t = "path"
                     THEN Append(saved, all_tasks[idx]) ELSE saved
         /\ bpc' = IF final_video.t = "raise" \/ vidx = Len(bresult.v.videos)
                   THEN "sleep" ELSE "cover"
    /\ vidx' = vidx + 1
    /\ UNCHANGED <<tasks_file, all_tasks, completed, idx, bresult, built, started>>
    /\ UNCHANGED <<ovars, tvars>>

\* line 197
MainSleep ==
    /\ bpc = "sleep"
    /\ idx' = idx + 1
    /\ bpc' = "loop"
    /\ UNCHANGED <<tasks_file, completed_file, all_tasks, completed, bresult,
                   vidx, built, started, saved>>
    /\ UNCHANGED <<ovars, tvars>>

\* line 199
MainEnd ==
    /\ bpc = "loop"
    /\ idx > Len(all_tasks)
    /\ bpc' = "done"
    /\ UNCHANGED <<tasks_file, completed_file, all_tasks, completed, idx,
                   bresult, vidx, built, started, saved>>
    /\ UNCHANGED <<ovars, tvars>>

BatchNext ==
    \/ MainLoad
    \/ MainSkip
    \/ MainBuild
    \/ MainStart
    \/ MainCover
    \/ MainSleep
    \/ MainEnd

SpecBatch == InitBatch /\ [][BatchNext]_vars

\* main is one sequential loop: as long as every call it makes returns or
\* raises, its next step is taken
SpecBatchFair == InitBatch /\ [][BatchNext]_vars /\ WF_vars(BatchNext)

(***************************************************************************)
(* Properties.                                                             *)
(***************************************************************************)
\* the progress values written by update_task calls first..last
ProgressWrites(first, last) ==
    {calls[k].progress : k \in {j \in first..last : "progress" \in DOMAIN calls[j]}}

\* the script stage returned a non-empty script without the marker
ScriptOk ==
    /\ Len(invoked) >= 1
    /\ frame.video_script.t = "str"
    /\ frame.video_script.v # <<>>
    /\ \A k \in 1..Len(frame.video_script.v) :
           frame.video_script.v[k] # ErrorMarker

\* C1: a run with stop_at = "script" whose script stage yields a non-empty
\* script without "Error:" ends COMPLETE with progress 100, returns a result
\* whose only key is script, writes no progress above 10 before the COMPLETE
\* update, and writes no progress below 10 once the script stage has succeeded.
C1_StopAtScript ==
    (stop_at = "script" /\ pc = "done" /\ ScriptOk) =>
        /\ task.state = TASK_STATE_COMPLETE
        /\ task.progress = Float(100)
        /\ calls[Len(calls)].state = TASK_STATE_COMPLETE
        /\ \A k \in 1..(Len(calls) - 1) : calls[k].state # TASK_STATE_COMPLETE
        /\ ret.t = "dict"
        /\ DOMAIN ret.v = {"script"}
        /\ ret.v.script = frame.video_script
        /\ \A v \in ProgressWrites(1, Len(calls) - 1) : FloatLe(v, Float(10))
        /\ \A v \in ProgressWrites(invoked[1].at + 1, Len(calls)) :
               FloatLe(Float(10), v)

C1_Witness ==
    /\ stop_at = "script" /\ pc = "done" /\ ScriptOk
    /\ task.state = TASK_STATE_COMPLETE
    /\ ProgressWrites(1, Len(calls)) = {Float(5), Float(10), Float(100)}

\* the progress values written, in the order of the update_task calls
RECURSIVE ProgressSeq(_)
ProgressSeq(kws) ==
    IF kws = <<>> THEN <<>>
    ELSE (IF "progress" \in DOMAIN Head(kws) THEN <<Head(kws).progress>> ELSE <<>>)
         \o ProgressSeq(Tail(kws))

NonDecreasing(ps) == \A k \in 1..(Len(ps) - 1) : FloatLe(ps[k], ps[k + 1])

\* start ran every stage and returned the full result
FullRun == pc = "done" /\ ret.t = "dict" /\ "videos" \in DOMAIN ret.v

\* C2: in a successful full run with video_count >= 1 the progress values
\* written by update_task start at 5, never decrease, and end at exactly 100.
C2_ProgressMonotone ==
    (FullRun /\ params.video_count >= 1) =>
        LET ps == ProgressSeq(calls)
        IN  /\ ps[1] = Float(5)
            /\ NonDecreasing(ps)
            /\ ps[Len(ps)] = Float(100)

\* the stage start called last
LastStage == invoked[Len(invoked)].stage

\* the stage called last returned its "no result" value
StageFailed(stage) ==
    /\ pc = "done"
    /\ ret.t # "raise"
    /\ invoked # <<>>
    /\ LastStage = stage
    /\ CASE stage = "script"    -> ~ScriptOk
         [] stage = "terms"     -> ~Truthy(frame.video_terms)
         [] stage = "audio"     -> frame.sub_maker = PyNone
         [] stage = "materials" -> frame.downloaded_videos = PyNone
         [] stage = "render"    -> render.final_video_paths = <<>>
         [] OTHER               -> FALSE

\* the last checkpoint written before each stage
Checkpoint(stage) ==
    CASE stage = "script"    -> 5
      [] stage = "terms"     -> 10
      [] stage = "audio"     -> 20
      [] stage = "materials" -> 40
      [] stage = "render"    -> 50

FailableStages == {"script", "terms", "audio", "materials", "render"}

\* the result fields written by the update_task calls so far
FieldsWritten == UNION {ResultFields(calls[k]) : k \in 1..Len(calls)}

\* C3: when the script, terms, audio, materials or render stage fails, the
\* task is FAILED, its progress is the last checkpoint written before the
\* failing stage (5, 10, 20, 40, 50), start returns None, and no result field
\* has been written to the task's record.
C3_FailedKeepsCheckpoint ==
    \A stage \in FailableStages :
        StageFailed(stage) =>
            /\ task.state = TASK_STATE_FAILED
            /\ task.progress = Float(Checkpoint(stage))
            /\ LET ps == ProgressSeq(calls)
               IN  ps[Len(ps)] = Float(Checkpoint(stage))
            /\ ret = PyNone
            /\ ResultFields(task) = {}
            /\ FieldsWritten = {}

\* the audio stage failed in a run that asked for the full video
C3_Witness ==
    /\ StageFailed("audio")
    /\ stop_at = "video"
    /\ task.state = TASK_STATE_FAILED
    /\ task.progress = Float(20)

\* the fixed order of the stages
Rank(stage) ==
    CASE stage = "script"    -> 1
      [] stage = "terms"     -> 2
      [] stage = "audio"     -> 3
      [] stage = "subtitle"  -> 4
      [] stage = "materials" -> 5
      [] stage = "render"    -> 6
      [] OTHER               -> 7

\* the stage returned a usable result (the subtitle stage cannot fail)
StageSucceeded(stage) ==
    CASE stage = "script"    -> ScriptOk
      [] stage = "terms"     -> Truthy(frame.video_terms)
      [] stage = "audio"     -> frame.sub_maker # PyNone
      [] stage = "subtitle"  -> TRUE
      [] stage = "materials" -> frame.downloaded_videos # PyNone
      [] stage = "render"    -> render.final_video_paths # <<>>

InvokedStages == {invoked[k].stage : k \in 1..Len(invoked)}

\* the stages start calls for these Parameters: terms is skipped when the
\* video source is local
StagesOf(p) ==
    IF p.video_source = "local"
    THEN <<"script", "audio", "subtitle", "materials", "render">>
    ELSE <<"script", "terms", "audio", "subtitle", "materials", "render">>

\* C4: the stages are invoked in the fixed order script, terms, audio,
\* subtitle, materials, render, one at a time and none twice; a stage is
\* invoked only if every stage invoked before it succeeded; no stage is
\* invoked after a stage failed, nor after the exit of the stage stop_at names.
C4_StageOrder ==
    /\ Len(invoked) <= Len(StagesOf(params))
    /\ \A k \in 1..Len(invoked) : invoked[k].stage = StagesOf(params)[k]
    /\ \A k \in 1..(Len(invoked) - 1) : StageSucceeded(invoked[k].stage)
    /\ \A k \in 1..Len(invoked) :
           stop_at \in {"script", "terms", "audio", "subtitle", "materials"}
               => Rank(invoked[k].stage) <= Rank(stop_at)
    /\ pc \in {"script", "terms", "audio", "subtitle", "materials", "render"}
           => \A k \in 1..Len(invoked) : Rank(invoked[k].stage) < Rank(pc)

\* the audio stage failed after the script and terms stages, and nothing
\* followed it
C4_Witness ==
    /\ pc = "done"
    /\ Len(invoked) = 3
    /\ LastStage = "audio"
    /\ frame.sub_maker = PyNone
    /\ stop_at = "video"

\* the combine calls of the render stage
CombineCalls ==
    {k \in 1..Len(collab) : collab[k].op = "video.combine_videos"}

\* C6: with video_count = N > 1 the concatenation mode passed to the combine
\* step is random for every variant 1..N, whatever mode the caller asked for.
C6_ForcedRandom ==
    params.video_count > 1 =>
        /\ \A k \in CombineCalls : collab[k].video_concat_mode = Random
        /\ FullRun =>
               {collab[k].combined_video_path : k \in CombineCalls}
                   = {CombinedVideo(n) : n \in 1..params.video_count}

\* three variants were rendered for a caller who asked for sequential
C6_Witness ==
    /\ FullRun
    /\ params.video_count = 3
    /\ params.video_concat_mode = Sequential
    /\ Cardinality(CombineCalls) = 3

\* the subjects a checkpoint file holds: its non-blank lines, trimmed
SubjectsOf(f) ==
    {Strip(f.lines[k]) : k \in {j \in 1..Len(f.lines) : Strip(f.lines[j]) # <<>>}}

Elements(q) == {q[k] : k \in 1..Len(q)}

\* completed.txt, still as the run found it, holds every subject of tasks.txt
AllCompleted ==
    /\ saved = <<>>
    /\ SubjectsOf(tasks_file) \subseteq SubjectsOf(completed_file)

\* C5: main never calls build_video_params or the orchestrator for a subject
\* of the completed set it loaded and appends nothing for it; when
\* completed.txt holds every subject of tasks.txt, a run processes no subject
\* and leaves completed.txt as it was.
C5_CompletedSkipped ==
    /\ [](\A subject \in completed :
              subject \notin Elements(built) \cup Elements(started)
                             \cup Elements(saved))
    /\ [](AllCompleted => built = <<>> /\ started = <<>>)
    /\ [][AllCompleted =>
              /\ completed_file' = completed_file
              /\ built' = <<>> /\ started' = <<>> /\ saved' = <<>>]_vars

\* a run over two pending subjects, both already completed, has ended
C5_Witness ==
    /\ bpc = "done"
    /\ Len(all_tasks) = 2
    /\ all_tasks[1] # all_tasks[2]
    /\ Elements(all_tasks) \subseteq completed
    /\ built = <<>>
    /\ idx = 3

\* the k-th piece of s between delimiters, k >= 1: what lies between the
\* (k-1)-th and the k-th delimiter of s
DelimiterPositions(s) == {k \in 1..Len(s) : IsDelimiter(s[k])}

Piece(s, k) ==
    LET before == {j \in DelimiterPositions(s) :
                      Cardinality({d \in DelimiterPositions(s) : d <= j}) = k - 1}
        after  == {j \in DelimiterPositions(s) :
                      Cardinality({d \in DelimiterPositions(s) : d <= j}) = k}
        from   == IF k = 1 THEN 1 ELSE (CHOOSE j \in before : TRUE) + 1
        to     == IF after = {} THEN Len(s) ELSE (CHOOSE j \in after : TRUE) - 1
    IN  SubSeq(s, from, to)

\* s without the whitespace at its two ends
Trimmed(s) ==
    LET inked == {k \in 1..Len(s) : s[k] # Space}
    IN  IF inked = {} THEN <<>>
        ELSE SubSeq(s, CHOOSE k \in inked : \A j \in inked : k <= j,
                       CHOOSE k \in inked : \A j \in inked : j <= k)

TrimmedSplit(s) ==
    [k \in 1..(Cardinality(DelimiterPositions(s)) + 1) |-> Trimmed(Piece(s, k))]

\* C7: for a non-empty video_terms string, generate_terms returns the pieces
\* between the delimiters ',' and U+FF0C, trimmed, in their order, and none of
\* the returned terms is the empty string.
C7_TermsSplit ==
    (terms_out # Pending /\ terms_in # <<>>) =>
        /\ ~terms_out.raised
        /\ terms_out.ret = PyList(TrimmedSplit(terms_in))
        /\ \A k \in 1..Len(terms_out.ret.v) : terms_out.ret.v[k] # <<>>

\* the part of C7 the code does satisfy: the trimmed split, in order
TermsSplitInOrder ==
    (terms_out # Pending /\ terms_in # <<>>) =>
        /\ ~terms_out.raised
        /\ terms_out.ret = PyList(TrimmedSplit(terms_in))

\* the update_task calls made after the subtitle stage returned
AfterSubtitle ==
    LET at == invoked[CHOOSE k \in 1..Len(invoked) :
                          invoked[k].stage = "subtitle"].at
    IN  SubSeq(calls, at + 1, Len(calls))

\* the subtitle stage returned the empty string
SubtitleEmpty ==
    /\ "subtitle" \in InvokedStages
    /\ frame.subtitle_path = PyStr(<<>>)

\* C8: when generate_subtitle returns the empty string no FAILED update is
\* written for it; a run with stop_at = "subtitle" ends COMPLETE with progress
\* 100 and subtitle_path = ""; any other run goes on to the materials stage.
C8_SubtitleNeverFails ==
    SubtitleEmpty =>
        /\ \A k \in 1..(Len(calls) - Len(AfterSubtitle)) :
               calls[k].state # TASK_STATE_FAILED
        /\ AfterSubtitle # <<>> => AfterSubtitle[1].state # TASK_STATE_FAILED
        /\ pc = "done" /\ stop_at = "subtitle" =>
               /\ task.state = TASK_STATE_COMPLETE
               /\ task.progress = Float(100)
               /\ task.subtitle_path = PyStr(<<>>)
               /\ ret = Dict([subtitle_path |-> PyStr(<<>>)])
               /\ LastStage = "subtitle"
        /\ pc = "done" /\ stop_at # "subtitle" =>
               /\ "materials" \in InvokedStages
               /\ AfterSubtitle[1] = ProgressKw(TASK_STATE_PROCESSING, 40)

\* the recognition path parsed to no line and the run stopped at the subtitle
C8_Witness ==
    /\ SubtitleEmpty
    /\ params.subtitle_enabled
    /\ \E k \in 1..Len(collab) : collab[k].op = "subtitle.correct"
    /\ pc = "done"
    /\ stop_at = "subtitle"
    /\ task.state = TASK_STATE_COMPLETE

\* the keys of the result start returns for each early stop_at
StopKeys(stop) ==
    CASE stop = "script"    -> {"script"}
      [] stop = "terms"     -> {"script", "terms"}
      [] stop = "audio"     -> {"audio_file", "audio_duration"}
      [] stop = "subtitle"  -> {"subtitle_path"}
      [] stop = "materials" -> {"materials"}

EarlyStops == {"script", "terms", "audio", "subtitle", "materials"}

\* start returned at the exit of the stage stop_at names
StoppedEarly == pc = "done" /\ ret.t = "dict" /\ stop_at \in EarlyStops

\* C9: a run that stops at script, terms, audio, subtitle or materials ends
\* COMPLETE with progress 100, and the result fields written to the task's
\* record are exactly the keys of the returned result: {script},
\* {script, terms}, {audio_file, audio_duration}, {subtitle_path}, {materials}.
C9_StopAtFields ==
    StoppedEarly =>
        /\ task.state = TASK_STATE_COMPLETE
        /\ task.progress = Float(100)
        /\ DOMAIN ret.v = StopKeys(stop_at)
        /\ FieldsWritten = DOMAIN ret.v
        /\ ResultFields(task) = DOMAIN ret.v

\* the part of C9 the code does satisfy: the task ends COMPLETE at 100, the
\* returned keys are as listed, and every field written is a returned key
StopAtReturnedKeys ==
    StoppedEarly =>
        /\ task.state = TASK_STATE_COMPLETE
        /\ task.progress = Float(100)
        /\ DOMAIN ret.v = StopKeys(stop_at)
        /\ FieldsWritten \subseteq DOMAIN ret.v
        /\ \A f \in FieldsWritten : task[f] = ret.v[f]

\* an update_task call that sets a terminal state
Terminal(kw) ==
    "state" \in DOMAIN kw /\ kw.state \in {TASK_STATE_COMPLETE, TASK_STATE_FAILED}

\* C10 as claimed: once an update_task call has set the state to COMPLETE or
\* FAILED, no further update_task call is made.
C10_NoCallAfterTerminal ==
    \A k \in 1..(Len(calls) - 1) : ~Terminal(calls[k])

\* C10 as amended: an update_task call that sets COMPLETE is the last call of
\* the run; a call that sets FAILED is followed by at most one call, the
\* orchestrator's update_task(state=FAILED) for the stage function that made
\* it, which carries neither progress nor result field and leaves the task's
\* record as it was.
C10_TerminalIsFinal ==
    \A k \in 1..(Len(calls) - 1) :
        Terminal(calls[k]) =>
            /\ calls[k] = StateKw(TASK_STATE_FAILED)
            /\ k = Len(calls) - 1
            /\ calls[k + 1] = StateKw(TASK_STATE_FAILED)
            /\ invoked[Len(invoked)].at = k
            /\ task = UpdateAll(<<>>, SubSeq(calls, 1, k))
            /\ pc = "done"

\* the materials stage wrote FAILED and the orchestrator wrote it again
C10_Witness ==
    /\ pc = "done"
    /\ LastStage = "materials"
    /\ frame.downloaded_videos = PyNone
    /\ Len(calls) >= 2
    /\ Terminal(calls[Len(calls) - 1])
    /\ Terminal(calls[Len(calls)])

\* every stage of a run that asked for the full video returned a usable result
AllStagesSucceeded ==
    /\ pc = "done"
    /\ stop_at \notin EarlyStops
    /\ ScriptOk
    /\ frame.sub_maker # PyNone
    /\ Truthy(frame.downloaded_videos)
    /\ render.final_video_paths # <<>>

\* C11: with video_source = "local" the terms stage is never invoked and the
\* terms call of the text generation neither; start does not raise and does
\* not fail for want of terms; the terms of script.json and of every returned
\* result are the empty string; and a full run with one valid local clip and
\* video_count = 1 ends COMPLETE with one video and materials of length 1.
C11_LocalSkipsTerms ==
    params.video_source = "local" =>
        /\ "terms" \notin InvokedStages
        /\ \A k \in 1..Len(collab) : collab[k].op # "llm.generate_terms"
        /\ ret.t # "raise"
        /\ pc \notin {"terms"}
        /\ DOMAIN script_json # {} => script_json.search_terms = PyStr(<<>>)
        /\ (ret.t = "dict" /\ "terms" \in DOMAIN ret.v) =>
               /\ ret.v.terms = PyStr(<<>>)
               /\ task.terms = PyStr(<<>>)
        /\ (AllStagesSucceeded /\ params.video_count = 1) =>
               /\ task.state = TASK_STATE_COMPLETE
               /\ task.progress = Float(100)
               /\ ret.t = "dict"
               /\ Len(ret.v.videos) = 1
               /\ ret.v.materials = PyList(LocalMaterials)
               /\ Len(ret.v.materials.v) = 1
               /\ ret.v.terms = PyStr(<<>>)
               /\ task.videos = ret.v.videos

\* a full run on one local clip produced its one video
C11_Witness ==
    /\ params.video_source = "local"
    /\ params.video_count = 1
    /\ AllStagesSucceeded
    /\ FullRun
    /\ DOMAIN script_json # {}
    /\ Len(ret.v.videos) = 1

\* the orchestrator's result for the subject at hand holds a produced video
ProducedVideo ==
    /\ started # <<>>
    /\ started[Len(started)] = all_tasks[idx]
    /\ HasVideos(bresult)
    /\ Len(bresult.v.videos) >= 1

\* C12: main appends a subject to the completed log only when the
\* orchestrator run for that subject has returned a result with at least one
\* produced video path; the result main looks at is the one of that run; after
\* a run that returned no result or raised, nothing is appended before the
\* next subject.
C12_SavedOnlyWithVideo ==
    /\ [][(completed_file' # completed_file \/ saved' # saved) =>
              /\ ProducedVideo
              /\ vidx \in 1..Len(bresult.v.videos)
              /\ saved' = Append(saved, all_tasks[idx])
              /\ completed_file' = save_completed(completed_file, all_tasks[idx])
              /\ started' = started /\ bresult' = bresult]_vars
    /\ [][bresult' # bresult =>
              /\ started' = Append(started, all_tasks[idx])
              /\ saved' = saved]_vars
    /\ [][(bpc = "sleep" /\ ~HasVideos(bresult)) =>
              saved' = saved /\ completed_file' = completed_file]_vars

\* the first subject was appended after its video, the second returned no
\* result and was not
C12_Witness ==
    /\ Len(started) = 2
    /\ started[1] # started[2]
    /\ saved = <<started[1]>>
    /\ bresult = PyNone
    /\ bpc = "sleep"

\* how many times x occurs in the sequence q
Count(q, x) == Cardinality({k \in 1..Len(q) : q[k] = x})

\* the cover loop of the subject at hand is over and its run had produced a
\* video; the subject was sent to the orchestrator once
AfterProducedVideo ==
    /\ bpc = "sleep"
    /\ ProducedVideo
    /\ Count(started, all_tasks[idx]) = 1

\* C13: a subject whose orchestrator run returned at least one produced video
\* path has written exactly one line, the subject, to the completed log; and
\* the log keeps every line it had: each subject loaded from it and each
\* subject appended to it is still one of its lines.
C13_OneLinePerSuccess ==
    /\ AfterProducedVideo => Count(saved, all_tasks[idx]) = 1
    /\ bpc # "main" =>
           /\ completed \subseteq SubjectsOf(completed_file)
           /\ Elements(saved) \subseteq SubjectsOf(completed_file)

\* the part of C13 the code does satisfy: a run writes at most one line for
\* its subject, and a log that is absent, empty or ended by a newline keeps
\* its lines and gets the subject as one new line
OneLineAtMost ==
    /\ [](AfterProducedVideo => Count(saved, all_tasks[idx]) <= 1)
    /\ [][(completed_file' # completed_file /\ completed_file.eol) =>
              completed_file'.lines = completed_file.lines \o <<all_tasks[idx]>>]_vars

\* the subject is not in the completed set main loaded
NotCompleted(subject) == subject \notin completed

\* how many subjects of the pending list main has gone past or is at
Reached ==
    CASE bpc = "main" -> 0
      [] bpc = "loop" -> idx - 1
      [] bpc = "done" -> Len(all_tasks)
      [] OTHER        -> idx

\* the processing of the subject at hand raised or returned no result; the
\* second and third disjuncts also hold for every subject after one whose
\* build_video_params raised, which only widens what C14 is stated for
SubjectFailed ==
    /\ bpc = "sleep"
    /\ \/ started = <<>>
       \/ Len(started) < Len(built)
       \/ ~HasVideos(bresult)

\* C14: when the processing of a subject raises or returns no result, main
\* appends nothing and goes on to the next subject; the subjects attempted are
\* at every moment the pending subjects reached so far that are not in the
\* completed set, in the order of the pending list; and the batch goes on to
\* its end, having attempted every one of them.
C14_BatchContinues ==
    /\ [](built = SelectSeq(SubSeq(all_tasks, 1, Reached), NotCompleted))
    /\ [][SubjectFailed =>
              /\ saved' = saved /\ completed_file' = completed_file
              /\ bpc' = "loop" /\ idx' = idx + 1]_vars
    /\ (SubjectFailed ~>
            (bpc = "done" /\ built = SelectSeq(all_tasks, NotCompleted)))

\* building the first subject raised and the second one was sent to the
\* orchestrator all the same
C14_Witness ==
    /\ Len(built) = 2
    /\ built[1] # built[2]
    /\ started = <<built[2]>>
    /\ saved = <<>>

\* the progress values written by the render stage, in order: its calls are
\* the ones that carry a progress and no state
RECURSIVE RenderWrites(_)
RenderWrites(kws) ==
    IF kws = <<>> THEN <<>>
    ELSE (IF DOMAIN Head(kws) = {"progress"} THEN <<Head(kws).progress>> ELSE <<>>)
         \o RenderWrites(Tail(kws))

\* n times the value x is exactly the integer m
TimesIs(n, x, m) ==
    LET low  == n * x[3]
        mid  == n * x[2] + low \div Limb
        high == n * x[1] + mid \div Limb
    IN  low % Limb = 0 /\ mid % Limb = 0 /\ high = m

\* C15: for video_count = N >= 1 every progress value written is an integer
\* between 0 and 100; a full run's render stage writes exactly 2 * N values,
\* the k-th being 50 + k * (50 / N / 2), and the last being 100.
C15_RenderProgress ==
    params.video_count >= 1 =>
        /\ \A v \in ProgressWrites(1, Len(calls)) :
               IsInteger(v) /\ FloatLe(Float(0), v) /\ FloatLe(v, Float(100))
        /\ FullRun =>
               LET ws == RenderWrites(calls)
                   N  == params.video_count
               IN  /\ Len(ws) = 2 * N
                   /\ \A k \in 1..Len(ws) : TimesIs(N, ws[k], 50 * N + 25 * k)
                   /\ ws[Len(ws)] = Float(100)

\* the part of C15 the code does satisfy: 2 * N writes by the render stage,
\* each the previous one plus the double 50 / N / 2, starting from 50
RenderWritesSteps ==
    (FullRun /\ params.video_count >= 1) =>
        LET ws == RenderWrites(calls)
        IN  /\ Len(ws) = 2 * params.video_count
            /\ \A k \in 1..Len(ws) :
                   ws[k] = FloatAdd(IF k = 1 THEN Float(50) ELSE ws[k - 1],
                                    ProgressStep(params))

\* the script stage returned a script that contains the marker
ScriptHasError ==
    /\ Len(invoked) >= 1
    /\ frame.video_script.t = "str"
    /\ ContainsError(frame.video_script.v)

\* C16: when the script the script stage returned contains "Error:", whether
\* the caller supplied it or the text generation produced it, start writes
\* FAILED and nothing else after the entry checkpoint, so the task is FAILED
\* with progress 5; start returns None whatever stop_at is; and no later
\* stage is invoked and script.json is not written.
C16_ErrorMarkerFails ==
    (ScriptHasError /\ pc # "after_script") =>
        /\ pc = "done"
        /\ calls = <<ProgressKw(TASK_STATE_PROCESSING, 5),
                     StateKw(TASK_STATE_FAILED)>>
        /\ task.state = TASK_STATE_FAILED
        /\ task.progress = Float(5)
        /\ ResultFields(task) = {}
        /\ ret = PyNone
        /\ InvokedStages = {"script"}
        /\ \A k \in 1..Len(collab) : collab[k].op = "llm.generate_script"
        /\ DOMAIN script_json = {}

\* the text generation returned a script with the marker in a run that was to
\* stop at the script
C16_Witness ==
    /\ ScriptHasError
    /\ pc = "done"
    /\ stop_at = "script"
    /\ collab = <<[op |-> "llm.generate_script"]>>
    /\ task.state = TASK_STATE_FAILED

\* the caller supplied a script with the marker
SuppliedErrorFails ==
    /\ ScriptHasError
    /\ pc = "done"
    /\ collab = <<>>
    /\ params.video_script = frame.video_script

\* the calls the subtitle stage made, in order
SubtitleOps ==
    SelectSeq(collab,
              LAMBDA c : c.op \in {"config.app.get", "voice.create_subtitle",
                                   "os.path.exists", "subtitle.create",
                                   "subtitle.correct",
                                   "subtitle.file_to_subtitles"})

\* the recognition path: create, then the correction pass
Recognition == <<[op |-> "subtitle.create"], [op |-> "subtitle.correct"]>>

Parsed == <<[op |-> "subtitle.file_to_subtitles"]>>

Configured(provider) == <<[op |-> "config.app.get", value |-> provider]>>

EdgeAttempt(exists) ==
    <<[op |-> "voice.create_subtitle"],
      [op |-> "os.path.exists", value |-> exists]>>

\* C17: once the subtitle stage has returned: with subtitles disabled it has
\* called no provider; with the edge provider it has made the edge attempt
\* and then run the recognition path (create, then correct) exactly when the
\* file was absent after the attempt; with the whisper provider it has made no
\* edge attempt and has run the recognition path exactly once.
C17_SubtitleProviders ==
    "subtitle" \in InvokedStages =>
        /\ ~params.subtitle_enabled => SubtitleOps = <<>>
        /\ params.subtitle_enabled =>
               /\ SubtitleOps # <<>>
               /\ SubtitleOps[1].op = "config.app.get"
               /\ SubtitleOps[1].value = "edge" =>
                      \E exists \in BOOLEAN :
                          SubtitleOps = Configured("edge") \o EdgeAttempt(exists)
                              \o (IF exists THEN <<>> ELSE Recognition)
                              \o Parsed
               /\ SubtitleOps[1].value = "whisper" =>
                      SubtitleOps = Configured("whisper") \o Recognition \o Parsed

\* the edge attempt left no file and the recognition path ran after it
C17_Witness ==
    /\ "subtitle" \in InvokedStages
    /\ params.subtitle_enabled
    /\ SubtitleOps = Configured("edge") \o EdgeAttempt(FALSE) \o Recognition
                          \o Parsed

\* the calls of the final render step
GenerateCalls ==
    {k \in 1..Len(collab) : collab[k].op = "video.generate_video"}

\* C18: the only change start makes to the Parameters is the one at its
\* entry, from the string form of video_concat_mode to the enumeration value
\* of the same name, every other field staying as it was; the mode the render
\* stage uses is not stored in the Parameters; and the Parameters passed to
\* the final render step and written to script.json are the Parameters after
\* that normalization.
C18_ParamsUnchanged ==
    /\ [][params' # params =>
              /\ pc = "start"
              /\ params.video_concat_mode.t = "str"
              /\ params'.video_concat_mode =
                     [t |-> "enum", v |-> params.video_concat_mode.v]
              /\ params' = [params EXCEPT
                               !.video_concat_mode = params'.video_concat_mode]]_vars
    /\ [](pc # "start" => params.video_concat_mode.t = "enum")
    /\ [](\A k \in GenerateCalls : collab[k].params = params)
    /\ [](DOMAIN script_json # {} => script_json.params = params)

\* two variants were rendered in random mode while the Parameters still say
\* sequential
C18_Witness ==
    /\ FullRun
    /\ params.video_count = 2
    /\ params.video_concat_mode = Sequential
    /\ render.video_concat_mode = Random
    /\ Cardinality(GenerateCalls) = 2

\* the calls of the stock-footage download
DownloadCalls ==
    {k \in 1..Len(collab) : collab[k].op = "material.download_videos"}

\* C19: with video_count > 1 every collaborator call that is given a
\* concatenation mode is given random: the combine calls of the render stage
\* and the download call of the materials stage, which asks for
\* audio_duration * video_count of footage.
C19_EveryCallRandom ==
    params.video_count > 1 =>
        /\ \A k \in CombineCalls : collab[k].video_concat_mode = Random
        /\ \A k \in DownloadCalls :
               /\ collab[k].video_contact_mode = Random
               /\ collab[k].audio_duration =
                      frame.audio_duration.v * params.video_count

\* the part of C19 the code does satisfy: the download is sized for
\* audio_duration * video_count and is given the mode of the Parameters
DownloadSized ==
    \A k \in DownloadCalls :
        /\ collab[k].audio_duration = frame.audio_duration.v * params.video_count
        /\ collab[k].video_contact_mode = params.video_concat_mode
        /\ collab[k].source = params.video_source

\* the states in which a task is over
TerminalStates == {TASK_STATE_COMPLETE, TASK_STATE_FAILED}

\* C20: when a run of start is over, whatever the Parameters and stop_at, the
\* state of the task's record is COMPLETE or FAILED, never PROCESSING.
C20_EndsTerminal ==
    pc = "done" => task.state \in TerminalStates

\* the part of C20 the code does satisfy: a run in which start returns leaves
\* the record COMPLETE when it returns a result and FAILED when it returns
\* None
ReturnedRunsAreTerminal ==
    (pc = "done" /\ ret.t # "raise") =>
        task.state = IF ret = PyNone THEN TASK_STATE_FAILED
                                     ELSE TASK_STATE_COMPLETE

\* start raised on video_terms that are neither a string nor a list
TermsTypeRaised ==
    /\ pc = "done"
    /\ ret = Raised("ValueError")
    /\ params.video_terms.t = "int"
    /\ task.state = TASK_STATE_PROCESSING
    /\ task.progress = Float(10)

\* the subject at hand is about to be sent to the orchestrator
AboutToStart == bpc = "start"

\* C21: in one batch run the orchestrator is invoked at most once for each
\* subject, and the subject it is about to be invoked for has not been
\* appended to the completed log in this run, also when the pending list
\* names a subject on more than one line.
C21_OncePerSubject ==
    /\ \A k \in 1..Len(started) : Count(started, started[k]) <= 1
    /\ AboutToStart => all_tasks[idx] \notin Elements(saved)

\* the part of C21 the code does satisfy: when no subject is on two lines of
\* the pending list, each subject is sent to the orchestrator at most once and
\* never after it was appended
OncePerPendingLine ==
    (\A j, k \in 1..Len(all_tasks) : all_tasks[j] = all_tasks[k] => j = k) =>
        /\ \A k \in 1..Len(started) : Count(started, started[k]) <= 1
        /\ AboutToStart => all_tasks[idx] \notin Elements(saved)

\* a subject on two lines of the pending list was sent to the orchestrator
\* again after it had been appended to the completed log
SentAgainAfterAppend ==
    /\ Len(started) = 2
    /\ started[1] = started[2]
    /\ saved # <<>>
    /\ saved[1] = started[1]
    /\ started[1] \notin completed

====
